---- MODULE Spec2Model ----
(***************************************************************************)
(* Model of cleanup_duplicate_files.py, the Xcode project-file             *)
(* duplicate-reference cleanup tool.                                       *)
(*                                                                         *)
(* A text is a sequence of tokens; the line terminator is a token of its   *)
(* own, so that split('\n') and '\n'.join are computed, not assumed.       *)
(* A token is a triple <<kind, a, b>>:                                     *)
(*   <<"uuid", u, "">>          a 24-digit hexadecimal identifier          *)
(*   <<"cmt", base, ext>>       the comment  /* base.ext */                *)
(*   <<"mark", which, section>> the comment  /* which section section */   *)
(*   <<"open", "", "">>         the character {                            *)
(*   <<"close", "", "">>        the character }                            *)
(*   <<"nl", "", "">>           the character \n                           *)
(* Blanks between two tokens of a line are implicit.                       *)
(***************************************************************************)
EXTENDS Integers, Sequences, FiniteSets, TLC

\* ------------------------------------------------------------------ bounds

\* Largest number of body lines of an input document.
MaxLines == 4

\* ------------------------------------------------------------------ tokens

NL == <<"nl", "", "">>
Uuid(u) == <<"uuid", u, "">>
Cmt(f) == <<"cmt", f[1], f[2]>>
Mark(which, section) == <<"mark", which, section>>
Open == <<"open", "", "">>
Close == <<"close", "", "">>
\* Bytes of the file that are no UTF-8 text.
Undecodable == <<"bytes", "", "">>

\* The identifiers and logical names the input documents are built from.
Identifiers == {"AAAA", "BBBB", "CCCC"}
FileNames == {<<"Foo", "swift">>, <<"Bar", "m">>}

\* The suffixes of file_pattern.
RecognizedSuffixes == {"swift", "m", "h", "storyboard", "xib"}

\* ------------------------------------------------------- str.split / join

\* content.split('\n'): the empty text is one empty line.
\* The text is split by halves: the last line of the left half and the first
\* line of the right half are one line.
RECURSIVE Split(_)
Split(c) ==
  IF c = <<>> THEN << <<>> >>
  ELSE IF Len(c) = 1
  THEN (IF c[1] = NL THEN << <<>>, <<>> >> ELSE << c >>)
  ELSE LET h == Len(c) \div 2
           l == Split(SubSeq(c, 1, h))
           r == Split(SubSeq(c, h + 1, Len(c)))
       IN SubSeq(l, 1, Len(l) - 1) \o << l[Len(l)] \o r[1] >> \o Tail(r)

\* '\n'.join(lines): no terminator after the last line, the empty text for
\* no line.
RECURSIVE Join(_)
Join(lines) ==
  IF lines = <<>> THEN <<>>
  ELSE IF Len(lines) = 1 THEN lines[1]
  ELSE LET h == Len(lines) \div 2 IN
       Join(SubSeq(lines, 1, h)) \o <<NL>>
         \o Join(SubSeq(lines, h + 1, Len(lines)))

\* content.count(tok)
Count(c, tok) == Cardinality({i \in 1..Len(c) : c[i] = tok})

\* tok in text (substring containment, for a token)
Contains(c, tok) == \E i \in 1..Len(c) : c[i] = tok

\* --------------------------------------------------- parse_file_references

\* \s* after the identifier: blanks and line terminators are skipped.  The
\* index of the first token after p that is no line terminator, 0 for none.
SkipSpace(c, p) ==
  LET rest == {q \in p..Len(c) : c[q] # NL} IN
  IF rest = {} THEN 0
  ELSE CHOOSE q \in rest : \A r \in rest : q <= r

\* Mutant: a comment of any suffix closes a match.
MatchEnd_AnySuffix(c, p) ==
  IF c[p][1] # "uuid" THEN 0
  ELSE LET q == SkipSpace(c, p + 1) IN
       IF q # 0 /\ c[q][1] = "cmt" THEN q ELSE 0

\* file_pattern matched at token p: the index of the match's last token (the
\* comment), 0 when the pattern does not match there.
MatchEnd(c, p) ==
  IF c[p][1] # "uuid" THEN 0
  ELSE LET q == SkipSpace(c, p + 1) IN
       IF q # 0 /\ c[q][1] = "cmt" /\ c[q][3] \in RecognizedSuffixes
       THEN q ELSE 0

\* Mutant: the line is counted at the end of the match, not at its start.
LineOf_AtMatchEnd(c, p) == Count(SubSeq(c, 1, SkipSpace(c, p + 1)), NL) + 1

\* content[:line_start].count('\n') + 1, line_start being the start of the
\* line that holds the match's first character.
LineOf(c, p) == Count(SubSeq(c, 1, p - 1), NL) + 1

\* The first identifier token at or after p, 0 for none: a match can start
\* nowhere else.
NextUuid(c, p) ==
  LET rest == {q \in p..Len(c) : c[q][1] = "uuid"} IN
  IF rest = {} THEN 0
  ELSE CHOOSE q \in rest : \A r \in rest : q <= r

\* re.finditer: the matches from left to right, none overlapping.
RECURSIVE ScanFrom(_, _)
ScanFrom(c, p) ==
  LET s == NextUuid(c, p) IN
  IF s = 0 THEN <<>>
  ELSE LET q == MatchEnd(c, s) IN
       IF q = 0 THEN ScanFrom(c, s + 1)
       ELSE << [uuid |-> c[s][2],
                filename |-> <<c[q][2], c[q][3]>>,
                line |-> LineOf(c, s),
                full_match |-> SubSeq(c, s, q)] >> \o ScanFrom(c, q + 1)

parse_file_references(c) == ScanFrom(c, 1)

\* ------------------------------------------------------ find_file_sections

\* The keys of the sections dictionary, in its order.
SectionNames ==
  << "PBXBuildFile", "PBXFileReference", "PBXGroup", "PBXSourcesBuildPhase",
     "PBXResourcesBuildPhase" >>

\* current_section = None
NoSection == ""

\* Mutant: an end-marker closes the section of its own name only.
RECURSIVE SectionAfter_OwnEndOnly(_, _, _)
SectionAfter_OwnEndOnly(cur, line, k) ==
  IF k > Len(SectionNames) THEN cur
  ELSE IF Contains(line, Mark("Begin", SectionNames[k]))
  THEN SectionAfter_OwnEndOnly(SectionNames[k], line, k + 1)
  ELSE IF Contains(line, Mark("End", SectionNames[k])) /\ cur = SectionNames[k]
  THEN SectionAfter_OwnEndOnly(NoSection, line, k + 1)
  ELSE SectionAfter_OwnEndOnly(cur, line, k + 1)

\* The inner loop over the sections, from the k-th on: a begin-marker in the
\* line opens its section, otherwise an end-marker in the line closes
\* whatever is open; a later section of the dictionary overrides an earlier.
RECURSIVE SectionAfter(_, _, _)
SectionAfter(cur, line, k) ==
  IF k > Len(SectionNames) THEN cur
  ELSE IF Contains(line, Mark("Begin", SectionNames[k]))
  THEN SectionAfter(SectionNames[k], line, k + 1)
  ELSE IF Contains(line, Mark("End", SectionNames[k]))
  THEN SectionAfter(NoSection, line, k + 1)
  ELSE SectionAfter(cur, line, k + 1)

\* The outer loop over the lines lo..hi, entered with current_section = cur
\* and the lists acc: the first half of the lines, then the second half from
\* where the first half ends (indices from 1 here; the indices stored are the
\* source's, from 0).
RECURSIVE IndexFrom(_, _, _, _, _)
IndexFrom(lines, lo, hi, cur, acc) ==
  IF lo > hi THEN [cur |-> cur, acc |-> acc]
  ELSE IF lo = hi
  THEN LET now == SectionAfter(cur, lines[lo], 1) IN
       IF now = NoSection THEN [cur |-> NoSection, acc |-> acc]
       ELSE [cur |-> now, acc |-> [acc EXCEPT ![now] = Append(@, lo - 1)]]
  ELSE LET mid == (lo + hi) \div 2
           left == IndexFrom(lines, lo, mid, cur, acc)
       IN IF left.cur = NoSection
          THEN IndexFrom(lines, mid + 1, hi, NoSection, left.acc)
          ELSE IndexFrom(lines, mid + 1, hi, left.cur, left.acc)

NoSections == [n \in {SectionNames[k] : k \in 1..Len(SectionNames)} |-> <<>>]

find_file_sections(lines) ==
  IndexFrom(lines, 1, Len(lines), NoSection, NoSections).acc

\* ------------------------------------------------------ analyze_duplicates

\* file_groups[filename]: the references of one filename, in scan order.
FileGroup(refs, f) == SelectSeq(refs, LAMBDA r : r.filename = f)

\* Mutant: an unstable sort, which puts a reference before the earlier ones
\* of its line.
InsertByLine_Unstable(s, r) ==
  LET before == SelectSeq(s, LAMBDA x : x.line < r.line)
      after == SelectSeq(s, LAMBDA x : x.line >= r.line)
  IN before \o <<r>> \o after

\* list.sort(key=line): stable insertion sort.
RECURSIVE InsertByLine(_, _)
InsertByLine(s, r) ==
  IF s = <<>> THEN <<r>>
  ELSE IF s[Len(s)].line <= r.line THEN Append(s, r)
  ELSE Append(InsertByLine(SubSeq(s, 1, Len(s) - 1), r), s[Len(s)])

RECURSIVE SortByLine(_)
SortByLine(s) ==
  IF s = <<>> THEN <<>>
  ELSE InsertByLine(SortByLine(SubSeq(s, 1, Len(s) - 1)), s[Len(s)])

\* Mutant: the last occurrence is kept.
KeepFirst_KeepsLast(refs) ==
  LET sorted == SortByLine(refs) IN
  [keep |-> sorted[Len(sorted)], remove |-> SubSeq(sorted, 1, Len(sorted) - 1)]

\* keep / remove of one group with more than one reference.
KeepFirst(refs) ==
  LET sorted == SortByLine(refs) IN
  [keep |-> sorted[1], remove |-> Tail(sorted)]

\* Mutant: a group of one reference counts as a duplicate group.
analyze_duplicates_AtLeastOne(refs) ==
  LET names == {refs[i].filename : i \in 1..Len(refs)}
      dups == {f \in names : Len(FileGroup(refs, f)) >= 1}
  IN [f \in dups |-> KeepFirst(FileGroup(refs, f))]

analyze_duplicates(refs) ==
  LET names == {refs[i].filename : i \in 1..Len(refs)}
      dups == {f \in names : Len(FileGroup(refs, f)) > 1}
  IN [f \in dups |-> KeepFirst(FileGroup(refs, f))]

\* --------------------------------------------- remove_duplicate_references

\* Mutant: the identifiers of the kept references are collected as well.
UuidsToRemove_WithKeep(duplicates) ==
  UNION {{duplicates[f].remove[i].uuid : i \in 1..Len(duplicates[f].remove)}
           \cup {duplicates[f].keep.uuid} : f \in DOMAIN duplicates}

\* uuids_to_remove
UuidsToRemove(duplicates) ==
  UNION {{duplicates[f].remove[i].uuid : i \in 1..Len(duplicates[f].remove)} :
           f \in DOMAIN duplicates}

\* `uuid in line`
LineHasUuid(line, u) == Contains(line, Uuid(u))

\* Mutant: only the first line that holds each identifier is removed.
LinesToRemove_FirstOnly(lines, uuids) ==
  {i \in 1..Len(lines) :
     \E u \in uuids :
        /\ LineHasUuid(lines[i], u)
        /\ \A j \in 1..(i - 1) : ~LineHasUuid(lines[j], u)}

\* Mutant: the index of the line after the matching one is recorded.
LinesToRemove_OffByOne(lines, uuids) ==
  {i \in 2..Len(lines) : \E u \in uuids : LineHasUuid(lines[i - 1], u)}

\* lines_to_remove (indices from 1 here, from 0 in the source)
LinesToRemove(lines, uuids) ==
  {i \in 1..Len(lines) : \E u \in uuids : LineHasUuid(lines[i], u)}

\* Mutant: a removed line is blanked in place.
FilterLines_Blanking(lines, drop, i) ==
  [k \in 1..Len(lines) |-> IF k \in drop THEN <<>> ELSE lines[k]]

\* filtered_lines
FilterLines(lines, drop, i) ==
  LET kept == SelectSeq([k \in 1..Len(lines) |-> k],
                        LAMBDA k : k >= i /\ k \notin drop)
  IN [j \in 1..Len(kept) |-> lines[kept[j]]]

remove_duplicate_references(c, duplicates) ==
  LET lines == Split(c)
      drop == LinesToRemove(lines, UuidsToRemove(duplicates))
  IN [text |-> Join(FilterLines(lines, drop, 1)),
      removed_count |-> Cardinality(drop)]

\* --------------------------------------------------- validate_project_file

required_sections ==
  << Mark("Begin", "PBXBuildFile"), Mark("End", "PBXBuildFile"),
     Mark("Begin", "PBXFileReference"), Mark("End", "PBXFileReference"),
     Mark("Begin", "PBXGroup"), Mark("End", "PBXGroup"),
     Mark("Begin", "PBXProject"), Mark("End", "PBXProject") >>

NoMark == <<"", "", "">>
MsgOK == [kind |-> "OK", section |-> NoMark, open |-> 0, close |-> 0]

\* Mutant: the last marker of the list is not looked for.
FirstMissing_SkipsLast(c) ==
  LET miss == {i \in 1..(Len(required_sections) - 1) :
                 ~Contains(c, required_sections[i])}
  IN IF miss = {} THEN 0
     ELSE CHOOSE i \in miss : \A j \in miss : i <= j

\* Mutant: the last absent marker of the list is reported.
FirstMissing_Last(c) ==
  LET miss == {i \in 1..Len(required_sections) :
                 ~Contains(c, required_sections[i])}
  IN IF miss = {} THEN 0
     ELSE CHOOSE i \in miss : \A j \in miss : i >= j

\* The first required marker, in list order, that the text lacks; 0 for none.
FirstMissing(c) ==
  LET miss == {i \in 1..Len(required_sections) :
                 ~Contains(c, required_sections[i])}
  IN IF miss = {} THEN 0
     ELSE CHOOSE i \in miss : \A j \in miss : i <= j

\* Mutant: the markers are not looked for, the braces only are counted.
validate_project_file_BracesOnly(c) ==
  LET open_braces == Count(c, Open)
      close_braces == Count(c, Close)
  IN IF open_braces # close_braces
     THEN [ok |-> FALSE,
           message |-> [kind |-> "Unbalanced braces", section |-> NoMark,
                        open |-> open_braces, close |-> close_braces]]
     ELSE [ok |-> TRUE, message |-> MsgOK]

validate_project_file(c) ==
  LET m == FirstMissing(c)
      open_braces == Count(c, Open)
      close_braces == Count(c, Close)
  IN IF m # 0
     THEN [ok |-> FALSE,
           message |-> [kind |-> "Missing required section",
                        section |-> required_sections[m],
                        open |-> 0, close |-> 0]]
     ELSE IF open_braces # close_braces
     THEN [ok |-> FALSE,
           message |-> [kind |-> "Unbalanced braces", section |-> NoMark,
                        open |-> open_braces, close |-> close_braces]]
     ELSE [ok |-> TRUE, message |-> MsgOK]

\* -------------------------------------------------------- input documents

\* The entries `uuid /* name */` a body line may hold.
Entries ==
  {<<"AAAA", <<"Foo", "swift">>>>, <<"BBBB", <<"Foo", "swift">>>>,
   <<"BBBB", <<"Bar", "m">>>>}

\* The lines a document's body is built from: an entry, a bare mention of an
\* identifier, a comment alone, and an opening brace.
BodyLines ==
  {<<Uuid(e[1]), Cmt(e[2])>> : e \in Entries}
    \cup {<<Uuid("AAAA")>>, <<Cmt(<<"Foo", "swift">>)>>, <<Open>>}

Bodies == UNION {[1..n -> BodyLines] : n \in 0..MaxLines}

\* The lines around the body: the document's outer braces and the marker
\* lines of the four required sections.  The body stands in the
\* PBXFileReference section; the last marker line is present, absent, or
\* shares its line with an identifier.
Layouts == {"full", "missing_end", "tagged_end"}

Prelude ==
  << <<Open>>,
     <<Mark("Begin", "PBXBuildFile")>>, <<Mark("End", "PBXBuildFile")>>,
     <<Mark("Begin", "PBXFileReference")>> >>

Trailer(layout) ==
  << <<Mark("End", "PBXFileReference")>>,
     <<Mark("Begin", "PBXGroup")>>, <<Mark("End", "PBXGroup")>>,
     <<Mark("Begin", "PBXProject")>> >>
  \o (CASE layout = "full" -> << <<Mark("End", "PBXProject")>> >>
        [] layout = "missing_end" -> <<>>
        [] layout = "tagged_end" ->
             << <<Mark("End", "PBXProject"), Uuid("BBBB")>> >>)
  \o << <<Close>> >>

Documents ==
  {Join(Prelude \o b \o Trailer(l)) : b \in Bodies, l \in Layouts}

\* Documents with a section that is begun and not ended: PBXFileReference or
\* PBXGroup, which validate_project_file requires, or PBXSourcesBuildPhase,
\* which find_file_sections alone knows.
MalformedLayouts == {"no_end_file_reference", "no_end_group", "open_sources"}

MalformedTrailer(layout) ==
  (IF layout = "no_end_file_reference" THEN <<>>
   ELSE << <<Mark("End", "PBXFileReference")>> >>)
  \o << <<Mark("Begin", "PBXGroup")>> >>
  \o (IF layout = "no_end_group" THEN <<>>
      ELSE << <<Mark("End", "PBXGroup")>> >>)
  \o << <<Mark("Begin", "PBXProject")>>, <<Mark("End", "PBXProject")>> >>
  \o (IF layout = "open_sources"
      THEN << <<Mark("Begin", "PBXSourcesBuildPhase")>> >>
      ELSE <<>>)
  \o << <<Close>> >>

MalformedDocuments ==
  {Join(Prelude \o b \o MalformedTrailer(l)) :
     b \in Bodies, l \in MalformedLayouts}

\* The well-formed documents, as they are and with a line of bytes that are
\* no UTF-8 text after the body.
UnreadableDocuments ==
  {Join(Prelude \o b \o extra \o Trailer("full")) :
     b \in Bodies, extra \in {<<>>, << <<Undecodable>> >>}}

\* What the user may type at the prompt, as characters.
Responses ==
  { <<"y", "e", "s">>, <<" ", "Y", "e", "S", " ">>, <<"y">>, <<>>,
    <<"n", "o">> }

\* ------------------------------------------------------------------- state

VARIABLES
  pc,               \* the step the run is at
  file_exists,      \* os.path.exists(project_file)
  file,             \* the text of project_file on disk
  backups,          \* the texts of the backup copies made, oldest first
  content,          \* main's content
  file_refs,        \* main's file_refs
  duplicates,       \* main's duplicates
  response,         \* main's response, stripped and lower-cased
  cleaned_content,  \* main's cleaned_content
  removed_count,    \* main's removed_count
  is_valid,         \* main's is_valid
  message,          \* main's message
  stdout,           \* what the run printed, in order
  exit_code,        \* the process's exit status, -1 while it runs
  writes,           \* how many times project_file was opened for writing
  original,         \* the text of project_file when the run started
  run,              \* pipeline only: 1 for the first pass, 2 for the second
  first,            \* pipeline only: what the first pass returned
  sections          \* the sections of the last find_file_sections call

vars ==
  <<pc, file_exists, file, backups, content, file_refs, duplicates, response,
    cleaned_content, removed_count, is_valid, message, stdout, exit_code,
    writes, original, run, first, sections>>

locals ==
  <<content, file_refs, duplicates, response, cleaned_content, removed_count,
    is_valid, message>>

NoMessage == [kind |-> "", section |-> NoMark, open |-> 0, close |-> 0]
NoFirst == [content |-> <<>>, duplicates |-> <<>>, text |-> <<>>,
            removed_count |-> 0]

InitLocals ==
  /\ content = <<>>
  /\ file_refs = <<>>
  /\ duplicates = <<>>
  /\ response = <<>>
  /\ cleaned_content = <<>>
  /\ removed_count = 0
  /\ is_valid = FALSE
  /\ message = NoMessage

\* --------------------------------------------------------------- pipeline
\* The pure stages applied in the order main applies them, scan -> analyze
\* -> remove -> validate, and once more on the text the first pass returned.

PipelineInit ==
  /\ pc = "scan"
  /\ run = 1
  /\ first = NoFirst
  /\ sections = NoSections
  /\ original \in Documents
  /\ content = original
  /\ file_refs = <<>>
  /\ duplicates = <<>>
  /\ response = <<>>
  /\ cleaned_content = <<>>
  /\ removed_count = 0
  /\ is_valid = FALSE
  /\ message = NoMessage
  /\ file_exists = FALSE
  /\ file = <<>>
  /\ backups = <<>>
  /\ stdout = <<>>
  /\ exit_code = -1
  /\ writes = 0

environment == <<file_exists, file, backups, stdout, exit_code, writes, response>>

\* file_refs = parse_file_references(content)
Scan ==
  /\ pc = "scan"
  /\ file_refs' = parse_file_references(content)
  /\ pc' = "analyze"
  /\ UNCHANGED <<content, duplicates, cleaned_content, removed_count,
                 is_valid, message, original, run, first, sections,
                 environment>>

\* duplicates = analyze_duplicates(file_refs)
Analyze ==
  /\ pc = "analyze"
  /\ duplicates' = analyze_duplicates(file_refs)
  /\ pc' = "remove"
  /\ UNCHANGED <<content, file_refs, cleaned_content, removed_count,
                 is_valid, message, original, run, first, sections,
                 environment>>

\* cleaned_content, removed_count =
\*     remove_duplicate_references(content, duplicates)
Remove ==
  /\ pc = "remove"
  /\ LET r == remove_duplicate_references(content, duplicates) IN
       /\ cleaned_content' = r.text
       /\ removed_count' = r.removed_count
  /\ sections' = find_file_sections(Split(content))
  /\ pc' = "validate"
  /\ UNCHANGED <<content, file_refs, duplicates, is_valid, message,
                 original, run, first, environment>>

\* is_valid, message = validate_project_file(cleaned_content)
Validate ==
  /\ pc = "validate"
  /\ LET v == validate_project_file(cleaned_content) IN
       /\ is_valid' = v.ok
       /\ message' = v.message
  /\ pc' = "returned"
  /\ UNCHANGED <<content, file_refs, duplicates, cleaned_content,
                 removed_count, original, run, first, sections,
                 environment>>

\* The second pass: the pipeline is given the text the first pass returned.
Rerun ==
  /\ pc = "returned"
  /\ run = 1
  /\ first' = [content |-> content, duplicates |-> duplicates,
               text |-> cleaned_content, removed_count |-> removed_count]
  /\ run' = 2
  /\ content' = cleaned_content
  /\ file_refs' = <<>>
  /\ duplicates' = <<>>
  /\ cleaned_content' = <<>>
  /\ removed_count' = 0
  /\ is_valid' = FALSE
  /\ message' = NoMessage
  /\ pc' = "scan"
  /\ UNCHANGED <<original, sections, environment>>

PipelineNext == Scan \/ Analyze \/ Remove \/ Validate \/ Rerun

PipelineSpec == PipelineInit /\ [][PipelineNext]_vars

\* ------------------------------------------------- other inputs of the stages

\* The pipeline started on one text.
PipelineStartsWith(text) ==
  /\ pc = "scan"
  /\ run = 1
  /\ first = NoFirst
  /\ sections = NoSections
  /\ original = text
  /\ content = text
  /\ file_refs = <<>>
  /\ duplicates = <<>>
  /\ response = <<>>
  /\ cleaned_content = <<>>
  /\ removed_count = 0
  /\ is_valid = FALSE
  /\ message = NoMessage
  /\ file_exists = FALSE
  /\ file = <<>>
  /\ backups = <<>>
  /\ stdout = <<>>
  /\ exit_code = -1
  /\ writes = 0

\* validate_project_file alone, on texts made of any selection of the
\* required marker lines, in list order, and a line of up to MaxBraces
\* opening and up to MaxBraces closing braces.
MaxBraces == 2

Repeat(tok, n) == [i \in 1..n |-> tok]

MarkerLines(present) ==
  LET at == SelectSeq([i \in 1..Len(required_sections) |-> i],
                      LAMBDA i : i \in present)
  IN [k \in 1..Len(at) |-> <<required_sections[at[k]]>>]

ValidateTexts ==
  {Join(MarkerLines(present) \o << Repeat(Open, o) \o Repeat(Close, c) >>) :
     present \in SUBSET (1..Len(required_sections)),
     o \in 0..MaxBraces, c \in 0..MaxBraces}

ValidateInit ==
  /\ pc = "validate"
  /\ run = 1
  /\ first = NoFirst
  /\ sections = NoSections
  /\ cleaned_content \in ValidateTexts
  /\ original = cleaned_content
  /\ content = cleaned_content
  /\ file_refs = <<>>
  /\ duplicates = <<>>
  /\ response = <<>>
  /\ removed_count = 0
  /\ is_valid = FALSE
  /\ message = NoMessage
  /\ file_exists = FALSE
  /\ file = <<>>
  /\ backups = <<>>
  /\ stdout = <<>>
  /\ exit_code = -1
  /\ writes = 0

ValidateSpec == ValidateInit /\ [][Validate]_vars

\* Texts with entries of an unrecognized suffix: every line is an entry of
\* Foo.swift, an entry of Foo.txt (under an identifier of its own or under
\* one that Foo.swift has too), a bare identifier, or a Foo.txt comment
\* alone.
SuffixLines ==
  { <<Uuid("AAAA"), Cmt(<<"Foo", "swift">>)>>,
    <<Uuid("BBBB"), Cmt(<<"Foo", "swift">>)>>,
    <<Uuid("CCCC"), Cmt(<<"Foo", "txt">>)>>,
    <<Uuid("AAAA"), Cmt(<<"Foo", "txt">>)>>,
    <<Uuid("CCCC")>>,
    <<Cmt(<<"Foo", "txt">>)>> }

SuffixTexts ==
  {Join(b) : b \in UNION {[1..n -> SuffixLines] : n \in 1..MaxLines}}

SuffixInit == \E t \in SuffixTexts : PipelineStartsWith(t)

SuffixSpec == SuffixInit /\ [][PipelineNext]_vars

\* find_file_sections alone, on texts of up to MaxLines lines, each a blank
\* line, the begin- or end-marker of a recognized section, or a marker of a
\* section find_file_sections does not know.
SectionLines ==
  { <<>>,
    <<Mark("Begin", "PBXBuildFile")>>, <<Mark("End", "PBXBuildFile")>>,
    <<Mark("Begin", "PBXGroup")>>, <<Mark("End", "PBXGroup")>>,
    <<Mark("Begin", "PBXResourcesBuildPhase")>>,
    <<Mark("Begin", "PBXProject")>> }

SectionTexts ==
  {Join(b) : b \in UNION {[1..n -> SectionLines] : n \in 1..MaxLines}}

SectionsInit ==
  /\ pc = "find_sections"
  /\ run = 1
  /\ first = NoFirst
  /\ sections = NoSections
  /\ content \in SectionTexts
  /\ original = content
  /\ file_refs = <<>>
  /\ duplicates = <<>>
  /\ response = <<>>
  /\ cleaned_content = <<>>
  /\ removed_count = 0
  /\ is_valid = FALSE
  /\ message = NoMessage
  /\ file_exists = FALSE
  /\ file = <<>>
  /\ backups = <<>>
  /\ stdout = <<>>
  /\ exit_code = -1
  /\ writes = 0

\* sections = find_file_sections(lines)
FindSections ==
  /\ pc = "find_sections"
  /\ sections' = find_file_sections(Split(content))
  /\ pc' = "sections_found"
  /\ UNCHANGED <<content, file_refs, duplicates, cleaned_content,
                 removed_count, is_valid, message, original, run, first,
                 environment>>

SectionsSpec == SectionsInit /\ [][FindSections]_vars

\* Texts with no marker lines around them: every line is a blank line, an
\* entry, two entries of one name, a bare identifier or a comment alone.
TextLines ==
  { <<>>,
    <<Uuid("AAAA"), Cmt(<<"Foo", "swift">>)>>,
    <<Uuid("BBBB"), Cmt(<<"Foo", "swift">>)>>,
    <<Uuid("BBBB"), Cmt(<<"Bar", "m">>)>>,
    <<Uuid("AAAA"), Cmt(<<"Foo", "swift">>), Uuid("BBBB"), Cmt(<<"Foo", "swift">>)>>,
    <<Uuid("AAAA")>>,
    <<Cmt(<<"Foo", "swift">>)>> }

Texts == {Join(b) : b \in UNION {[1..n -> TextLines] : n \in 1..MaxLines}}

TextInit == \E t \in Texts : PipelineStartsWith(t)

TextSpec == TextInit /\ [][PipelineNext]_vars

\* The document of the three-declarations scenario: Foo.swift declared under
\* AAAA, BBBB and CCCC at lines 10, 45 and 120, each identifier mentioned
\* once more at lines 200, 210 and 220.  A mention is written bare
\* (`fileRef = AAAA;`), with a comment that file_pattern does not match
\* (`AAAA /* Foo.swift in Sources */`) or with the name in a comment
\* (`AAAA /* Foo.swift */,`), which file_pattern matches as one more
\* reference; the other lines are all blank or all `{ }`.
ScenarioStyles == {"bare", "in_sources", "named"}
ScenarioFillers == {<<>>, <<Open, Close>>}
ScenarioLengths == {220, 221, 230}

ScenarioMention(u, style) ==
  CASE style = "bare" -> <<Uuid(u)>>
    [] style = "in_sources" -> <<Uuid(u), Cmt(<<"Foo.swift in Sources", "">>)>>
    [] OTHER -> <<Uuid(u), Cmt(<<"Foo", "swift">>)>>

ScenarioLine(i, style, filler) ==
  CASE i = 10 -> <<Uuid("AAAA"), Cmt(<<"Foo", "swift">>)>>
    [] i = 45 -> <<Uuid("BBBB"), Cmt(<<"Foo", "swift">>)>>
    [] i = 120 -> <<Uuid("CCCC"), Cmt(<<"Foo", "swift">>)>>
    [] i = 200 -> ScenarioMention("AAAA", style)
    [] i = 210 -> ScenarioMention("BBBB", style)
    [] i = 220 -> ScenarioMention("CCCC", style)
    [] OTHER -> filler

ScenarioLines(style, filler, n) ==
  [i \in 1..n |-> ScenarioLine(i, style, filler)]

ScenarioTexts ==
  {Join(ScenarioLines(st, fl, n)) :
     st \in ScenarioStyles, fl \in ScenarioFillers, n \in ScenarioLengths}

ScenarioInit == \E t \in ScenarioTexts : PipelineStartsWith(t)

ScenarioSpec == ScenarioInit /\ [][PipelineNext]_vars

\* ------------------------------------------------------------------- main

\* str.strip(): blanks off both ends.
IsBlank(ch) == ch \in {" ", "\t"}

RECURSIVE LStrip(_)
LStrip(t) ==
  IF t # <<>> /\ IsBlank(Head(t)) THEN LStrip(Tail(t)) ELSE t

RECURSIVE RStrip(_)
RStrip(t) ==
  IF t # <<>> /\ IsBlank(t[Len(t)]) THEN RStrip(SubSeq(t, 1, Len(t) - 1))
  ELSE t

Strip(t) == RStrip(LStrip(t))

\* str.lower()
LowerChar(ch) ==
  CASE ch = "Y" -> "y" [] ch = "E" -> "e" [] ch = "S" -> "s"
    [] ch = "N" -> "n" [] ch = "O" -> "o" [] OTHER -> ch

Lower(t) == [i \in 1..Len(t) |-> LowerChar(t[i])]

Yes == <<"y", "e", "s">>

\* print(...)
Say(text) == [text |-> text, detail |-> NoMessage]
SayWith(text, m) == [text |-> text, detail |-> m]

pipeline_vars == <<run, first>>
other_vars == <<run, first, sections>>

Init ==
  /\ pc = "start"
  /\ file_exists \in BOOLEAN
  /\ file \in (IF file_exists THEN Documents ELSE {<<>>})
  /\ original = file
  /\ backups = <<>>
  /\ InitLocals
  /\ stdout = <<>>
  /\ exit_code = -1
  /\ writes = 0
  /\ run = 1
  /\ first = NoFirst
  /\ sections = NoSections

\* main started where the project file is missing, is well-formed, or holds
\* bytes that are no UTF-8 text.
UnreadableInit ==
  /\ pc = "start"
  /\ file_exists \in BOOLEAN
  /\ file \in (IF file_exists THEN UnreadableDocuments ELSE {<<>>})
  /\ original = file
  /\ backups = <<>>
  /\ InitLocals
  /\ stdout = <<>>
  /\ exit_code = -1
  /\ writes = 0
  /\ run = 1
  /\ first = NoFirst
  /\ sections = NoSections

\* main started on an existing project file with a section left open.
MalformedInit ==
  /\ pc = "start"
  /\ file_exists = TRUE
  /\ file \in MalformedDocuments
  /\ original = file
  /\ backups = <<>>
  /\ InitLocals
  /\ stdout = <<>>
  /\ exit_code = -1
  /\ writes = 0
  /\ run = 1
  /\ first = NoFirst
  /\ sections = NoSections

\* Mutant: main returns with status 0 when the project file is missing.
CheckExists_ExitZero ==
  /\ pc = "start"
  /\ IF file_exists
     THEN /\ pc' = "backup"
          /\ stdout' = Append(stdout, Say("Xcode Project Duplicate File Reference Cleanup"))
          /\ UNCHANGED exit_code
     ELSE /\ pc' = "exited"
          /\ stdout' = stdout \o << Say("Error: Project file not found"),
                                    Say("Please run this script from the project root directory.") >>
          /\ exit_code' = 0
  /\ UNCHANGED <<file_exists, file, backups, locals, writes, original,
                 other_vars>>

\* if not os.path.exists(project_file): ... sys.exit(1)
CheckExists ==
  /\ pc = "start"
  /\ IF file_exists
     THEN /\ pc' = "backup"
          /\ stdout' = Append(stdout, Say("Xcode Project Duplicate File Reference Cleanup"))
          /\ UNCHANGED exit_code
     ELSE /\ pc' = "exited"
          /\ stdout' = stdout \o << Say("Error: Project file not found"),
                                    Say("Please run this script from the project root directory.") >>
          /\ exit_code' = 1
  /\ UNCHANGED <<file_exists, file, backups, locals, writes, original,
                 other_vars>>

\* Mutant: the backup is announced but no copy is made.
create_backup_NoCopy ==
  /\ pc = "backup"
  /\ stdout' = Append(stdout, Say("Created backup"))
  /\ pc' = "read"
  /\ UNCHANGED <<file_exists, file, backups, locals, exit_code, writes,
                 original, other_vars>>

\* backup_path = create_backup(project_file)
create_backup ==
  /\ pc = "backup"
  /\ backups' = Append(backups, file)
  /\ stdout' = Append(stdout, Say("Created backup"))
  /\ pc' = "read"
  /\ UNCHANGED <<file_exists, file, locals, exit_code, writes, original,
                 other_vars>>

\* with open(project_file, 'r', encoding='utf-8') as f: content = f.read()
\* On bytes that are no UTF-8 text read() raises UnicodeDecodeError, which
\* nothing catches: the interpreter ends the run with status 1.
ReadFile ==
  /\ pc = "read"
  /\ stdout' = Append(stdout, Say("Reading project file..."))
  /\ IF Contains(file, Undecodable)
     THEN /\ pc' = "exited"
          /\ exit_code' = 1
          /\ UNCHANGED content
     ELSE /\ content' = file
          /\ pc' = "parse"
          /\ UNCHANGED exit_code
  /\ UNCHANGED <<file_exists, file, backups, file_refs, duplicates, response,
                 cleaned_content, removed_count, is_valid, message,
                 writes, original, other_vars>>

\* file_refs = parse_file_references(content)
ParseRefs ==
  /\ pc = "parse"
  /\ file_refs' = parse_file_references(content)
  /\ stdout' = Append(stdout, Say("Analyzing file references..."))
  /\ pc' = "find"
  /\ UNCHANGED <<file_exists, file, backups, content, duplicates, response,
                 cleaned_content, removed_count, is_valid, message,
                 exit_code, writes, original, other_vars>>

\* Mutant: main goes on to the removal without asking.
FindDuplicates_NoPrompt ==
  /\ pc = "find"
  /\ duplicates' = analyze_duplicates(file_refs)
  /\ IF DOMAIN duplicates' = {}
     THEN /\ stdout' = Append(stdout, Say("No duplicate file references found!"))
          /\ pc' = "exited"
          /\ exit_code' = 0
     ELSE /\ stdout' = Append(stdout, Say("Found files with duplicate references"))
          /\ pc' = "remove"
          /\ UNCHANGED exit_code
  /\ UNCHANGED <<file_exists, file, backups, content, file_refs, response,
                 cleaned_content, removed_count, is_valid, message, writes,
                 original, other_vars>>

\* duplicates = analyze_duplicates(file_refs); if not duplicates: return
FindDuplicates ==
  /\ pc = "find"
  /\ duplicates' = analyze_duplicates(file_refs)
  /\ IF DOMAIN duplicates' = {}
     THEN /\ stdout' = Append(stdout, Say("No duplicate file references found!"))
          /\ pc' = "exited"
          /\ exit_code' = 0
     ELSE /\ stdout' = Append(stdout, Say("Found files with duplicate references"))
          /\ pc' = "confirm"
          /\ UNCHANGED exit_code
  /\ UNCHANGED <<file_exists, file, backups, content, file_refs, response,
                 cleaned_content, removed_count, is_valid, message, writes,
                 original, other_vars>>

\* Mutant: the answer "y" is taken for a yes.
Confirm_AcceptsY ==
  /\ pc = "confirm"
  /\ \E typed \in Responses :
       /\ response' = Lower(Strip(typed))
       /\ IF response' \notin {Yes, <<"y">>}
          THEN /\ stdout' = stdout \o << Say("Continue? (yes/no): "),
                                         Say("Cancelled by user.") >>
               /\ pc' = "exited"
               /\ exit_code' = 0
          ELSE /\ stdout' = Append(stdout, Say("Continue? (yes/no): "))
               /\ pc' = "remove"
               /\ UNCHANGED exit_code
  /\ UNCHANGED <<file_exists, file, backups, content, file_refs, duplicates,
                 cleaned_content, removed_count, is_valid, message, writes,
                 original, other_vars>>

\* Mutant: main returns on a refusal without saying so.
Confirm_SilentCancel ==
  /\ pc = "confirm"
  /\ \E typed \in Responses :
       /\ response' = Lower(Strip(typed))
       /\ stdout' = Append(stdout, Say("Continue? (yes/no): "))
       /\ IF response' # Yes
          THEN pc' = "exited" /\ exit_code' = 0
          ELSE pc' = "remove" /\ UNCHANGED exit_code
  /\ UNCHANGED <<file_exists, file, backups, content, file_refs, duplicates,
                 cleaned_content, removed_count, is_valid, message, writes,
                 original, other_vars>>

\* response = input("Continue? (yes/no): ").strip().lower()
\* if response != 'yes': return
Confirm ==
  /\ pc = "confirm"
  /\ \E typed \in Responses :
       /\ response' = Lower(Strip(typed))
       /\ IF response' # Yes
          THEN /\ stdout' = stdout \o << Say("Continue? (yes/no): "),
                                         Say("Cancelled by user.") >>
               /\ pc' = "exited"
               /\ exit_code' = 0
          ELSE /\ stdout' = Append(stdout, Say("Continue? (yes/no): "))
               /\ pc' = "remove"
               /\ UNCHANGED exit_code
  /\ UNCHANGED <<file_exists, file, backups, content, file_refs, duplicates,
                 cleaned_content, removed_count, is_valid, message, writes,
                 original, other_vars>>

\* cleaned_content, removed_count =
\*     remove_duplicate_references(content, duplicates)
RemoveDuplicates ==
  /\ pc = "remove"
  /\ LET r == remove_duplicate_references(content, duplicates) IN
       /\ cleaned_content' = r.text
       /\ removed_count' = r.removed_count
  /\ sections' = find_file_sections(Split(content))
  /\ stdout' = Append(stdout, Say("Removed lines"))
  /\ pc' = "validate"
  /\ UNCHANGED <<file_exists, file, backups, content, file_refs, duplicates,
                 response, is_valid, message, exit_code, writes, original,
                 pipeline_vars>>

\* Mutant: a failed validation is reported but main does not return.
ValidateCleaned_NoReturn ==
  /\ pc = "validate"
  /\ LET v == validate_project_file(cleaned_content) IN
       /\ is_valid' = v.ok
       /\ message' = v.message
       /\ stdout' = IF v.ok
                    THEN Append(stdout, Say("Validating cleaned project file..."))
                    ELSE stdout \o << SayWith("Validation failed", v.message),
                                      Say("Backup preserved") >>
       /\ pc' = "write"
  /\ UNCHANGED <<file_exists, file, backups, content, file_refs, duplicates,
                 response, cleaned_content, removed_count, exit_code, writes,
                 original, other_vars>>

\* is_valid, message = validate_project_file(cleaned_content)
\* if not is_valid: ... return
ValidateCleaned ==
  /\ pc = "validate"
  /\ LET v == validate_project_file(cleaned_content) IN
       /\ is_valid' = v.ok
       /\ message' = v.message
       /\ IF v.ok
          THEN /\ stdout' = Append(stdout, Say("Validating cleaned project file..."))
               /\ pc' = "write"
               /\ UNCHANGED exit_code
          ELSE /\ stdout' = stdout \o << SayWith("Validation failed", v.message),
                                         Say("Backup preserved") >>
               /\ pc' = "exited"
               /\ exit_code' = 0
  /\ UNCHANGED <<file_exists, file, backups, content, file_refs, duplicates,
                 response, cleaned_content, removed_count, writes, original,
                 other_vars>>

\* Mutant: the text read, not the cleaned text, is written back.
WriteFile_Unfiltered ==
  /\ pc = "write"
  /\ file' = content
  /\ writes' = writes + 1
  /\ stdout' = stdout \o << Say("Writing cleaned project file..."),
                            Say("Success! Duplicate references removed.") >>
  /\ pc' = "exited"
  /\ exit_code' = 0
  /\ UNCHANGED <<file_exists, backups, locals, original, other_vars>>

\* with open(project_file, 'w') as f: f.write(cleaned_content)
WriteFile ==
  /\ pc = "write"
  /\ file' = cleaned_content
  /\ writes' = writes + 1
  /\ stdout' = stdout \o << Say("Writing cleaned project file..."),
                            Say("Success! Duplicate references removed.") >>
  /\ pc' = "exited"
  /\ exit_code' = 0
  /\ UNCHANGED <<file_exists, backups, locals, original, other_vars>>

Next ==
  \/ CheckExists
  \/ create_backup
  \/ ReadFile
  \/ ParseRefs
  \/ FindDuplicates
  \/ Confirm
  \/ RemoveDuplicates
  \/ ValidateCleaned
  \/ WriteFile

Spec == Init /\ [][Next]_vars

MalformedSpec == MalformedInit /\ [][Next]_vars

UnreadableSpec == UnreadableInit /\ [][Next]_vars

\* ------------------------------------------------------------------ claims

\* The identifiers in the remove lists of a duplicate map.
RemoveIds(dups) ==
  {u \in Identifiers :
     \E f \in DOMAIN dups : \E i \in 1..Len(dups[f].remove) :
        dups[f].remove[i].uuid = u}

\* The required section markers a text holds.
MarkersIn(c) ==
  {required_sections[i] : i \in {j \in 1..Len(required_sections) :
                                   \E k \in 1..Len(c) : c[k] = required_sections[j]}}

\* The logical names of a sequence of references, and how many references
\* each has.
NamesOf(refs) == {refs[i].filename : i \in 1..Len(refs)}
RefCount(refs, f) == Cardinality({i \in 1..Len(refs) : refs[i].filename = f})

\* remove_duplicate_references has returned in the current pass.
AfterRemove == pc \in {"validate", "returned"}

\* C1: after remove_duplicate_references has run with the duplicate map of
\* analyze_duplicates, no line of the rewritten text holds an identifier of
\* any group's remove list.
C1_RemovalComplete ==
  AfterRemove =>
    LET out == Split(cleaned_content) IN
    \A u \in RemoveIds(duplicates) : \A i \in 1..Len(out) :
       \A k \in 1..Len(out[i]) : out[i][k] # Uuid(u)

\* A first pass that removed lines of two or more identifiers' groups.
C1_Witness ==
  /\ pc = "returned" /\ run = 1
  /\ removed_count >= 2
  /\ RemoveIds(duplicates) # {}

\* C2: every logical name with one or more scanned references in the input
\* has exactly one reference in the rewritten text, the one designated keep
\* (the earliest of the input).
C2_KeepOne ==
  (AfterRemove /\ run = 1) =>
    LET outRefs == parse_file_references(cleaned_content) IN
    \A f \in NamesOf(file_refs) :
       /\ RefCount(outRefs, f) = 1
       /\ \E i \in 1..Len(outRefs) :
            /\ outRefs[i].filename = f
            /\ outRefs[i].uuid = FileGroup(file_refs, f)[1].uuid

\* C3: the second pass, run on the text the first pass returned, finds no
\* duplicate group, removes no line and returns the text it was given.
C3_Idempotent ==
  (AfterRemove /\ run = 2) =>
    /\ DOMAIN duplicates = {}
    /\ removed_count = 0
    /\ cleaned_content = first.text

\* validate_project_file returned fail in this run.
ValidationFailed ==
  message.kind \in {"Missing required section", "Unbalanced braces"}

\* C4: in a run where validation of the rewritten text fails, the project
\* file is not written and keeps its original text, the backup made earlier
\* in the run is still there, and the reason is printed.
C4_NoWriteOnValidationFailure ==
  ValidationFailed =>
    /\ pc = "exited"
    /\ writes = 0
    /\ file = original
    /\ backups = <<original>>
    /\ \E i \in 1..Len(stdout) :
         stdout[i] = [text |-> "Validation failed", detail |-> message]

\* A run whose removal broke the document: lines were removed and the
\* result failed validation.
C4_Witness ==
  /\ ValidationFailed
  /\ removed_count > 0
  /\ validate_project_file(original).ok

\* C5: the project file is written at most once in a run, only after the
\* user confirmed and validation passed, and with the validated rewritten
\* text; in every other run its text is unchanged.
C5_WriteOnlyConfirmedAndValid ==
  /\ writes <= 1
  /\ writes = 1 =>
       /\ response = <<"y", "e", "s">>
       /\ is_valid
       /\ file = cleaned_content
       /\ cleaned_content = remove_duplicate_references(original, duplicates).text
       /\ validate_project_file(file).ok
  /\ writes = 0 => file = original
  /\ (pc = "exited" /\ ~(response = <<"y", "e", "s">> /\ is_valid)) => writes = 0

\* A run that wrote a text different from the original.
C5_Witness ==
  /\ writes = 1
  /\ file # original
  /\ pc = "exited"

\* C6: a write to the project file is preceded, in the same run, by the
\* creation of a backup whose text is the project file's text before the run.
C6_BackupPrecedesWrite ==
  [][(writes' # writes \/ file' # file) =>
       (backups # <<>> /\ backups[1] = original)]_vars

\* A run that wrote the file, its backup holding the original text.
C6_Witness ==
  /\ writes = 1
  /\ backups = <<original>>
  /\ file # original

\* C7: for a document in which every logical name has exactly one scanned
\* reference, analyze_duplicates returns the empty report,
\* remove_duplicate_references returns count 0 and the text unchanged, and
\* main ends without writing the project file.
C7_NoDuplicatesTerminal ==
  LET refs == parse_file_references(original) IN
  (pc = "exited" /\ file_exists /\ \A f \in NamesOf(refs) : RefCount(refs, f) = 1) =>
    /\ DOMAIN duplicates = {}
    /\ DOMAIN analyze_duplicates(refs) = {}
    /\ remove_duplicate_references(original, analyze_duplicates(refs))
         = [text |-> original, removed_count |-> 0]
    /\ writes = 0
    /\ file = original
    /\ stdout[Len(stdout)].text = "No duplicate file references found!"

\* A finished run on a document with two names, one reference each.
C7_Witness ==
  /\ pc = "exited"
  /\ Cardinality(NamesOf(file_refs)) = 2
  /\ Len(file_refs) = 2
  /\ DOMAIN duplicates = {}

\* C8: when validation passes on the rewritten text, the rewritten text
\* holds the same required section markers as the input text and as many
\* opening as closing braces.
C8_StructuralPreservation ==
  (pc = "returned" /\ is_valid) =>
    /\ MarkersIn(cleaned_content) = MarkersIn(content)
    /\ Cardinality({k \in 1..Len(cleaned_content) : cleaned_content[k] = Open})
         = Cardinality({k \in 1..Len(cleaned_content) : cleaned_content[k] = Close})

\* A first pass that removed lines and passed validation.
C8_Witness ==
  /\ pc = "returned" /\ run = 1
  /\ is_valid
  /\ removed_count > 0

\* C9 as stated: the text remove_duplicate_references returns holds exactly
\* the required section markers of its input.
C9_MarkersKept ==
  AfterRemove => MarkersIn(cleaned_content) = MarkersIn(content)

\* C9, amended: the returned text holds no required marker its input lacks,
\* and a marker of the input is missing from it only when every input line
\* holding that marker also holds an identifier of the remove lists.
C9_MarkersLostOnlyWithRemovedId ==
  AfterRemove =>
    LET lines == Split(content) IN
    /\ MarkersIn(cleaned_content) \subseteq MarkersIn(content)
    /\ \A m \in MarkersIn(content) \ MarkersIn(cleaned_content) :
         \A i \in 1..Len(lines) :
            (\E k \in 1..Len(lines[i]) : lines[i][k] = m) =>
               \E u \in RemoveIds(duplicates) :
                  \E k \in 1..Len(lines[i]) : lines[i][k] = Uuid(u)

\* A first pass whose removal took a required marker with it.
C9_Witness ==
  /\ pc = "returned" /\ run = 1
  /\ MarkersIn(cleaned_content) # MarkersIn(content)

\* C10: the identifiers of the references in the remove lists of all groups
\* are pairwise distinct, within one list and across lists.
C10_RemoveIdsDistinct ==
  LET slots == UNION {{<<f, i>> : i \in 1..Len(duplicates[f].remove)} :
                        f \in DOMAIN duplicates}
  IN \A s \in slots : \A t \in slots :
        s # t => duplicates[s[1]].remove[s[2]].uuid
                   # duplicates[t[1]].remove[t[2]].uuid

\* C11 as stated: in every duplicate group the keep's line number is
\* strictly smaller than that of every reference in remove, and remove is in
\* ascending line order.
C11_KeepStrictlyEarlier ==
  \A f \in DOMAIN duplicates :
     LET g == duplicates[f] IN
     /\ \A i \in 1..Len(g.remove) : g.keep.line < g.remove[i].line
     /\ \A i \in 1..Len(g.remove) : \A j \in i..Len(g.remove) :
          g.remove[i].line <= g.remove[j].line

\* C11, amended: the keep's line number is smaller than or equal to that of
\* every reference in remove (equal for a reference matched on the keep's own
\* line), and remove is in non-decreasing line order.
C11_KeepNotLater ==
  \A f \in DOMAIN duplicates :
     LET g == duplicates[f] IN
     /\ \A i \in 1..Len(g.remove) : g.keep.line <= g.remove[i].line
     /\ \A i \in 1..Len(g.remove) : \A j \in i..Len(g.remove) :
          g.remove[i].line <= g.remove[j].line

\* A group whose keep shares its line with the first of remove and has a
\* later reference as well.
C11_Witness ==
  /\ run = 1
  /\ \E f \in DOMAIN duplicates :
       /\ Len(duplicates[f].remove) >= 2
       /\ duplicates[f].keep.line = duplicates[f].remove[1].line
       /\ duplicates[f].keep.line < duplicates[f].remove[2].line

\* The run printed this text.
Said(text) == \E i \in 1..Len(stdout) : stdout[i].text = text

\* The reports that end the four outcomes, and how many of them were printed.
OutcomeReports ==
  { "No duplicate file references found!", "Success! Duplicate references removed.",
    "Validation failed", "Cancelled by user." }
ReportsSaid == {t \in OutcomeReports : Said(t)}

C13_ExpectedLines ==
  LET in == Split(first.content)
      keepIdx == SelectSeq([i \in 1..Len(in) |-> i],
                           LAMBDA i : i \notin {45, 120, 210, 220})
  IN [k \in 1..Len(keepIdx) |-> in[keepIdx[k]]]

\* The scenario's premise: the scanned references of the input are the three
\* declarations at lines 10, 45 and 120, the mentions at lines 200, 210 and
\* 220 being no matches of file_pattern.
C13_ThreeDeclarations ==
  LET refs == parse_file_references(first.content) IN
  /\ [i \in 1..Len(refs) |-> refs[i].line] = <<10, 45, 120>>
  /\ \A i \in {200, 210, 220} : Split(first.content)[i] # <<>>

LeftOpen(c, section) ==
  Contains(c, Mark("Begin", section)) /\ ~Contains(c, Mark("End", section))

\* The text lacks the end-marker of a section find_file_sections recognizes.
LacksEndMarker(c) ==
  \E k \in 1..Len(SectionNames) : LeftOpen(c, SectionNames[k])

\* Everything main prints.
MainPrints ==
  { "Xcode Project Duplicate File Reference Cleanup",
    "Error: Project file not found",
    "Please run this script from the project root directory.",
    "Created backup", "Reading project file...",
    "Analyzing file references...", "No duplicate file references found!",
    "Found files with duplicate references", "Continue? (yes/no): ",
    "Cancelled by user.", "Removed lines",
    "Validating cleaned project file...", "Validation failed",
    "Backup preserved", "Writing cleaned project file...",
    "Success! Duplicate references removed." }

\* C14 as stated: on a document that lacks the end-marker of a recognized
\* section a MalformedSectionMarkers warning is raised, the run completes,
\* validation reports failure for the absent marker, and the project file is
\* not written.
C14_WarningAndValidationFailure ==
  (pc = "exited" /\ LacksEndMarker(original)) =>
    /\ Said("MalformedSectionMarkers")
    /\ Said("Validation failed")
    /\ message.kind = "Missing required section"
    /\ writes = 0

\* C14, amended: on a document that lacks the end-marker of a recognized
\* section nothing but main's usual reports is printed (no warning) and the
\* run completes with exit status 0.  Validation is reached only when
\* duplicates were found and the user answered yes; it then fails, naming
\* the first absent required marker, when the section left open is one of
\* the validator's required list, and the file is not written.  A section
\* left open that the validator does not require (PBXSourcesBuildPhase) does
\* not make validation fail: a file is written only when every required
\* marker is present.
C14_NoWarningRequiredMarkersOnly ==
  (pc = "exited" /\ LacksEndMarker(original)) =>
    /\ \A i \in 1..Len(stdout) : stdout[i].text \in MainPrints
    /\ exit_code = 0
    /\ Said("Removed lines") <=> (DOMAIN duplicates # {} /\ response = Yes)
    /\ (Said("Removed lines") /\ FirstMissing(original) # 0) =>
         /\ Said("Validation failed")
         /\ message.kind = "Missing required section"
         /\ message.section = required_sections[FirstMissing(original)]
         /\ writes = 0
         /\ file = original
    /\ (Said("Removed lines") /\ FirstMissing(original) = 0) =>
         /\ message.kind # "Missing required section"
         /\ writes = 1 <=> Count(cleaned_content, Open) = Count(cleaned_content, Close)
    /\ ~Said("Removed lines") => (writes = 0 /\ message = NoMessage)

\* A document with PBXGroup left open went through removal, failed
\* validation for the absent end-marker and was not written.
C14_Witness ==
  /\ pc = "exited"
  /\ LeftOpen(original, "PBXGroup")
  /\ Said("Removed lines")
  /\ Said("Validation failed")
  /\ message.section = Mark("End", "PBXGroup")
  /\ removed_count > 0
  /\ writes = 0

\* A document with PBXSourcesBuildPhase left open was cleaned and written.
C14_WrittenWithOpenSection ==
  /\ pc = "exited"
  /\ LeftOpen(original, "PBXSourcesBuildPhase")
  /\ writes = 1
  /\ file # original
  /\ LeftOpen(file, "PBXSourcesBuildPhase")

\* The steps of a run, read off what it has printed and computed.
Read == Said("Reading project file...")
Analyzed == Said("Found files with duplicate references")
Prompted == Said("Continue? (yes/no): ")
Transformed == Said("Removed lines")
Validated == message # NoMessage
Written == writes > 0

\* C15 as stated: the steps come in the order read, transform, validate,
\* confirm, write, so the step that asks for the confirmation starts from a
\* state where the rewritten text has been produced and validated.
C15_ConfirmAfterValidate ==
  [][(~Prompted /\ Prompted') => (Transformed /\ Validated)]_vars

\* C15, amended: the steps come in the order read, analyze, confirm,
\* transform, validate, write.  The confirmation is asked for once the
\* duplicates are known and before any rewritten text is produced; the text
\* is rewritten only after a yes, validated only after it is rewritten, and
\* written only after it is validated.
C15_ConfirmBeforeTransform ==
  [][/\ (~Prompted /\ Prompted') =>
          (Read /\ Analyzed /\ ~Transformed /\ ~Validated /\ ~Written
             /\ cleaned_content = <<>>)
     /\ (~Transformed /\ Transformed') =>
          (Prompted /\ response = Yes /\ ~Validated /\ ~Written)
     /\ (~Validated /\ Validated') => (Transformed /\ ~Written)
     /\ (~Written /\ Written') => (Validated /\ is_valid /\ Prompted)
    ]_vars

\* A run that asked, rewrote, validated and wrote.
C15_Witness ==
  /\ pc = "exited"
  /\ Read /\ Analyzed /\ Prompted /\ Transformed /\ Validated /\ Written
  /\ file = cleaned_content
  /\ file # original

\* The input lines that hold no identifier of the remove lists, in order.
C16_KeptLines ==
  SelectSeq(Split(content),
            LAMBDA l : \A u \in RemoveIds(duplicates) : ~LineHasUuid(l, u))

\* C16 as stated: the lines of the returned text are exactly the input lines
\* that hold no identifier of the remove lists, verbatim and in order, and
\* the returned count is the number of input lines minus the number of
\* output lines.
C16_ExactLinesAndCount ==
  AfterRemove =>
    /\ Split(cleaned_content) = C16_KeptLines
    /\ removed_count = Len(Split(content)) - Len(Split(cleaned_content))

\* C16, amended: the returned text is the join of exactly the input lines
\* that hold no identifier of the remove lists, verbatim and in order, and
\* the returned count is the number of input lines minus the number of kept
\* lines, a line with several removed identifiers counted once.  When some
\* line is kept the returned text splits back into the kept lines; when
\* every line is removed it is the empty text, which splits into one empty
\* line and not into none.
C16_KeptLinesJoined ==
  AfterRemove =>
    /\ cleaned_content = Join(C16_KeptLines)
    /\ removed_count = Len(Split(content)) - Len(C16_KeptLines)
    /\ C16_KeptLines # <<>> => Split(cleaned_content) = C16_KeptLines
    /\ C16_KeptLines = <<>> =>
         (cleaned_content = <<>> /\ Split(cleaned_content) = << <<>> >>)

\* A line with two removed identifiers was removed and counted once, and
\* other lines were kept.
C16_Witness ==
  /\ AfterRemove
  /\ run = 1
  /\ \E i \in 1..Len(Split(content)) :
       Cardinality({u \in RemoveIds(duplicates) :
                      LineHasUuid(Split(content)[i], u)}) = 2
  /\ C16_KeptLines # <<>>
  /\ removed_count = Len(Split(content)) - Len(C16_KeptLines)
  /\ removed_count > 0

\* analyze_duplicates has returned in the current pass.
AfterAnalyze == pc \in {"remove", "validate", "returned"}

\* The scanned references of one logical name, in scan order.
C17_ReferencesOf(f) ==
  LET at == SelectSeq([i \in 1..Len(file_refs) |-> i],
                      LAMBDA i : file_refs[i].filename = f)
  IN [k \in 1..Len(at) |-> file_refs[at[k]]]

\* C17: analyze_duplicates returns a group for exactly the logical names with
\* two or more scanned references; keep followed by remove is the list of
\* that name's references, none lost, none added and none of another name,
\* in ascending line order with references of one line in scan order, so
\* keep is the first of them.
C17_GroupsExact ==
  AfterAnalyze =>
    /\ DOMAIN duplicates =
         {f \in NamesOf(file_refs) : RefCount(file_refs, f) >= 2}
    /\ \A f \in DOMAIN duplicates :
         LET all == <<duplicates[f].keep>> \o duplicates[f].remove IN
         /\ all = C17_ReferencesOf(f)
         /\ \A i \in 1..Len(all) : all[i].filename = f
         /\ \A i, j \in 1..Len(all) : i < j => all[i].line <= all[j].line
         /\ duplicates[f].keep = C17_ReferencesOf(f)[1]

\* A name with two references on one line has its group, a name with one
\* reference has none.
C17_Witness ==
  /\ AfterAnalyze
  /\ run = 1
  /\ \E f \in DOMAIN duplicates :
       /\ Len(duplicates[f].remove) >= 2
       /\ duplicates[f].keep.line = duplicates[f].remove[1].line
       /\ duplicates[f].keep.uuid # duplicates[f].remove[1].uuid
  /\ \E g \in NamesOf(file_refs) : g \notin DOMAIN duplicates

\* The fixed list of the markers validate_project_file requires.
C18_Required ==
  << <<"mark", "Begin", "PBXBuildFile">>, <<"mark", "End", "PBXBuildFile">>,
     <<"mark", "Begin", "PBXFileReference">>,
     <<"mark", "End", "PBXFileReference">>,
     <<"mark", "Begin", "PBXGroup">>, <<"mark", "End", "PBXGroup">>,
     <<"mark", "Begin", "PBXProject">>, <<"mark", "End", "PBXProject">> >>

\* The positions of the list whose marker the validated text lacks.
C18_Missing ==
  {i \in 1..Len(C18_Required) :
     \A k \in 1..Len(cleaned_content) : cleaned_content[k] # C18_Required[i]}

C18_OpenBraces ==
  Cardinality({k \in 1..Len(cleaned_content) : cleaned_content[k][1] = "open"})
C18_CloseBraces ==
  Cardinality({k \in 1..Len(cleaned_content) : cleaned_content[k][1] = "close"})

\* C18: validate_project_file returns pass exactly when every marker of the
\* fixed list is in the text and the numbers of opening and closing braces
\* are equal; otherwise it returns fail with a reason, which names the first
\* absent marker in list order when a marker is absent, and the two brace
\* counts only when every marker is present.
C18_ValidateIff ==
  pc = "returned" =>
    /\ is_valid <=> (C18_Missing = {} /\ C18_OpenBraces = C18_CloseBraces)
    /\ is_valid => message = MsgOK
    /\ C18_Missing # {} =>
         /\ message.kind = "Missing required section"
         /\ message.section \in {C18_Required[i] : i \in C18_Missing}
         /\ \A i \in C18_Missing :
              \E j \in C18_Missing :
                 j <= i /\ message.section = C18_Required[j]
    /\ (C18_Missing = {} /\ C18_OpenBraces # C18_CloseBraces) =>
         message = [kind |-> "Unbalanced braces", section |-> NoMark,
                    open |-> C18_OpenBraces, close |-> C18_CloseBraces]

\* A text that lacks two markers and has unbalanced braces is failed for the
\* first absent marker.
C18_Witness ==
  /\ pc = "returned"
  /\ ~is_valid
  /\ Cardinality(C18_Missing) >= 2
  /\ C18_OpenBraces # C18_CloseBraces
  /\ message.kind = "Missing required section"

\* The names find_file_sections recognizes.
C19_Names ==
  {"PBXBuildFile", "PBXFileReference", "PBXGroup", "PBXSourcesBuildPhase",
   "PBXResourcesBuildPhase"}

\* The line is the begin- or the end-marker of a recognized section.
C19_IsMarker(line) ==
  \E n \in C19_Names, w \in {"Begin", "End"} : line = <<Mark(w, n)>>

\* The section that owns the i-th line (from 1) of the text: the one whose
\* begin-marker is the most recent marker at or before the line; NoSection
\* when there is no marker there or the most recent one is an end-marker.
C19_Owner(lines, i) ==
  LET ms == {j \in 1..i : C19_IsMarker(lines[j])} IN
  IF ms = {} THEN NoSection
  ELSE LET j == CHOOSE m \in ms : \A o \in ms : o <= m IN
       IF lines[j][1][2] = "Begin" THEN lines[j][1][3] ELSE NoSection

\* C19: on any sequence of marker lines find_file_sections returns a list
\* for each recognized section; a line index is in the list of section X
\* exactly when the most recent marker at or before the line is the
\* begin-marker of X, so no index is in two lists; every list is strictly
\* ascending.
C19_MostRecentMarkerOwns ==
  pc = "sections_found" =>
    LET lines == Split(content) IN
    /\ DOMAIN sections = C19_Names
    /\ \A n \in C19_Names :
         /\ \A i \in 1..Len(lines) :
              (\E k \in 1..Len(sections[n]) : sections[n][k] = i - 1)
                <=> C19_Owner(lines, i) = n
         /\ \A k \in 1..Len(sections[n]) :
              sections[n][k] \in 0..(Len(lines) - 1)
         /\ \A k \in 1..(Len(sections[n]) - 1) :
              sections[n][k] < sections[n][k + 1]
    /\ \A n, m \in C19_Names :
         n # m => \A k \in 1..Len(sections[n]), l \in 1..Len(sections[m]) :
                    sections[n][k] # sections[m][l]

\* An end-marker with no section open, then a begin-marker twice: the
\* section owns both begin-marker lines and the line after them.
C19_Witness ==
  /\ pc = "sections_found"
  /\ Split(content) =
       << <<Mark("End", "PBXGroup")>>, <<Mark("Begin", "PBXBuildFile")>>,
          <<Mark("Begin", "PBXBuildFile")>>, <<>> >>
  /\ sections["PBXBuildFile"] = <<1, 2, 3>>
  /\ sections["PBXGroup"] = <<>>

\* parse_file_references has returned in the current pass.
AfterScan == pc \in {"analyze", "remove", "validate", "returned"}

\* The comment that closes a match begun by the identifier at p: the first
\* token after p that is no line terminator, when it is a comment with a
\* recognized suffix; 0 otherwise.
C20_CommentOf(c, p) ==
  LET after == {q \in (p + 1)..Len(c) : c[q][1] # "nl"} IN
  IF after = {} THEN 0
  ELSE LET q == CHOOSE x \in after : \A y \in after : x <= y IN
       IF c[q][1] = "cmt" /\ c[q][3] \in {"swift", "m", "h", "storyboard", "xib"}
       THEN q ELSE 0

\* The positions of the text where a match of file_pattern starts.
C20_MatchStarts(c) ==
  {p \in 1..Len(c) : c[p][1] = "uuid" /\ C20_CommentOf(c, p) # 0}

\* C20: parse_file_references returns one reference per match, in document
\* order; the line number of each is 1 plus the number of line terminators
\* before the start of its match, so the line numbers do not decrease along
\* the returned sequence.
C20_OnePerMatchLineOfStart ==
  AfterScan =>
    LET starts == C20_MatchStarts(content) IN
    /\ Len(file_refs) = Cardinality(starts)
    /\ \A k \in 1..Len(file_refs) :
         \E p \in starts :
            /\ Cardinality({q \in starts : q < p}) = k - 1
            /\ file_refs[k].uuid = content[p][2]
            /\ file_refs[k].filename =
                 << content[C20_CommentOf(content, p)][2],
                    content[C20_CommentOf(content, p)][3] >>
            /\ file_refs[k].line =
                 1 + Cardinality({j \in 1..(p - 1) : content[j][1] = "nl"})
    /\ \A k \in 1..(Len(file_refs) - 1) :
         file_refs[k].line <= file_refs[k + 1].line

\* Two matches on one line, and a later match that starts on one line and
\* ends on the next.
C20_Witness ==
  /\ AfterScan
  /\ run = 1
  /\ \E k \in 1..(Len(file_refs) - 1) :
       /\ file_refs[k].line = file_refs[k + 1].line
       /\ \E l \in (k + 2)..Len(file_refs) :
            /\ file_refs[l].line > file_refs[k].line
            /\ Contains(file_refs[l].full_match, NL)

\* The suffixes file_pattern recognizes.
C21_Recognized == {"swift", "m", "h", "storyboard", "xib"}

\* The identifiers that stand before a comment of a recognized suffix
\* somewhere in the text, line ends between the two skipped.
C21_RecognizedIds(c) ==
  {c[p][2] : p \in {q \in 1..Len(c) : c[q][1] = "uuid"
                                      /\ C20_CommentOf(c, q) # 0}}

C22_KeepSurvives ==
  AfterRemove =>
    \A f \in DOMAIN duplicates :
       /\ duplicates[f].keep.uuid \notin RemoveIds(duplicates)
       /\ \E j \in 1..Len(Split(cleaned_content)) :
            Split(cleaned_content)[j] = Split(content)[duplicates[f].keep.line]

\* C22, second case alone: the keep's identifier is not among the
\* identifiers to remove, and still the keep's line, which mentions a removed
\* identifier as well, is a line of the rewritten text.
C22_KeepLineWithRemovedIdSurvives ==
  AfterRemove =>
    \A f \in DOMAIN duplicates :
       duplicates[f].keep.uuid \notin RemoveIds(duplicates) =>
         \E j \in 1..Len(Split(cleaned_content)) :
            Split(cleaned_content)[j] = Split(content)[duplicates[f].keep.line]

\* C23: main goes on to the removal only when the response, trimmed and
\* lower-cased, is exactly "yes"; after any other response, "y" and the empty
\* one included, the run has ended as cancelled: nothing removed, nothing
\* validated, the project file not written.
C23_OnlyYesProceeds ==
  /\ Prompted =>
       response \in {<<"y", "e", "s">>, <<"y">>, <<>>, <<"n", "o">>}
  /\ (pc \in {"remove", "validate", "write"} \/ Transformed \/ Validated
        \/ Written) =>
       (Prompted /\ response = <<"y", "e", "s">>)
  /\ (Prompted /\ response = <<"y", "e", "s">>) =>
       (~Said("Cancelled by user.") /\ pc # "confirm")
  /\ (Prompted /\ response # <<"y", "e", "s">>) =>
       /\ pc = "exited"
       /\ exit_code = 0
       /\ Said("Cancelled by user.")
       /\ ~Transformed /\ ~Validated /\ ~Written
       /\ cleaned_content = <<>>
       /\ removed_count = 0
       /\ file = original

\* A run on a file with duplicates that the user answered with nothing.
C23_Witness ==
  /\ pc = "exited"
  /\ Prompted
  /\ DOMAIN duplicates # {}
  /\ response = <<>>
  /\ Said("Cancelled by user.")
  /\ writes = 0
  /\ file = original

\* C24 as stated: when the project file does not exist main exits with
\* status 1 before anything else is done: no backup, nothing read or
\* written, no prompt; no other run ends with a non-zero exit status.
C24_MissingFileOnlyFailure ==
  pc = "exited" =>
    /\ ~file_exists =>
         /\ exit_code = 1
         /\ backups = <<>>
         /\ content = <<>> /\ ~Read
         /\ writes = 0 /\ file = original
         /\ ~Prompted
    /\ exit_code # 0 => ~file_exists

\* C24, amended: when the project file does not exist main exits with
\* status 1 before anything else is done: no backup, nothing read or
\* written, no prompt.  It is the only exit with a non-zero status that main
\* itself makes; a run on a file that is no UTF-8 text also ends with status
\* 1, by the decoding error that read() raises, after the backup has been
\* made and before anything is parsed, asked or written.  Every other run
\* ends with status 0.
C24_MissingOrUndecodable ==
  pc = "exited" =>
    /\ ~file_exists =>
         /\ exit_code = 1
         /\ Said("Error: Project file not found")
         /\ backups = <<>>
         /\ content = <<>> /\ ~Read
         /\ writes = 0 /\ file = original
         /\ ~Prompted
    /\ (file_exists /\ Contains(original, Undecodable)) =>
         /\ exit_code = 1
         /\ backups = <<original>>
         /\ Read /\ content = <<>> /\ file_refs = <<>>
         /\ writes = 0 /\ file = original
         /\ ~Prompted
         /\ ReportsSaid = {}
    /\ exit_code # 0 <=> (~file_exists \/ Contains(original, Undecodable))

\* A run that did not find the project file.
C24_Witness ==
  /\ pc = "exited"
  /\ ~file_exists
  /\ exit_code = 1
  /\ Said("Error: Project file not found")
  /\ backups = <<>>
  /\ Len(stdout) = 2

\* A run that found a file of undecodable bytes: status 1, one backup made.
C24_UndecodableWitness ==
  /\ pc = "exited"
  /\ file_exists
  /\ exit_code = 1
  /\ backups = <<original>>
  /\ ~Prompted

====
